---- MODULE Spec2Model ----
(***************************************************************************)
(* CV Skill Matching Assistant (streamlit_app.py).                         *)
(*                                                                         *)
(* The script is re-executed from top to bottom on every widget            *)
(* interaction; st.session_state is the only state that survives a rerun.  *)
(* Two specifications are given:                                           *)
(*   Spec    the session: one action per widget interaction, each action   *)
(*           being the widget change followed by the whole script run;     *)
(*   FnSpec  the pure parts of the script (keyword set construction, batch *)
(*           processing, role rules) applied to inputs drawn from bounded  *)
(*           sets.                                                         *)
(* Python str values are TLA+ strings over the characters of Ascii.        *)
(***************************************************************************)
EXTENDS Integers, Sequences, FiniteSets, TLC

VARIABLES
    session_state,  \* st.session_state: a mapping whose DOMAIN is the set of keys
    excel_file,     \* value of the Excel uploader widget
    selected_job,   \* value of the job title selectbox
    keyword_input,  \* value of the additional-keywords text input
    uploaded_cvs,   \* value of the CV uploader (sequence of files)
    user_query,     \* value of the sidebar text area
    run,            \* what the last script run did and rendered
    hashseed,       \* the process's string hash seed (fixes set iteration order)
    processed_once, \* some run of this session completed lines 96-113
    call,           \* FnSpec: the pending call, a record tagged by fn
    ret             \* FnSpec: its result, or NoRet

vars == <<session_state, excel_file, selected_job, keyword_input, uploaded_cvs,
          user_query, run, hashseed, processed_once, call, ret>>

sessionVars == <<session_state, excel_file, selected_job, keyword_input,
                 uploaded_cvs, user_query, run, processed_once>>

-----------------------------------------------------------------------------
(* Python str operations *)

\* The characters of the model, in code point order.
Ascii == " ,ABCDEFGHIJKLMNOPQRSTUVWXYZabcdefghijklmnopqrstuvwxyz"

Chr(s, i) == SubSeq(s, i, i)

Chars == {Chr(Ascii, i) : i \in 1..Len(Ascii)}

\* Position of a character in code point order.
OrdMap == [c \in Chars |-> CHOOSE i \in 1..Len(Ascii) : Chr(Ascii, i) = c]

Ord(c) == OrdMap[c]

\* str.lower() on one character: the 26 upper case letters map to lower case.
LowerMap == [c \in Chars |-> IF OrdMap[c] \in 3..28 THEN Chr(Ascii, OrdMap[c] + 26) ELSE c]

LowerChar(c) == LowerMap[c]

RECURSIVE lower(_)
lower(s) == IF s = "" THEN "" ELSE LowerChar(Chr(s, 1)) \o lower(SubSeq(s, 2, Len(s)))

IsSpace(c) == c = " "

RECURSIVE lstrip(_)
lstrip(s) ==
    IF s # "" /\ IsSpace(Chr(s, 1)) THEN lstrip(SubSeq(s, 2, Len(s))) ELSE s

RECURSIVE rstrip(_)
rstrip(s) ==
    IF s # "" /\ IsSpace(Chr(s, Len(s))) THEN rstrip(SubSeq(s, 1, Len(s) - 1)) ELSE s

strip(s) == rstrip(lstrip(s))

\* s.split(sep) for a one-character sep: always at least one piece.
RECURSIVE split(_, _)
split(s, sep) ==
    IF \E i \in 1..Len(s) : Chr(s, i) = sep
    THEN LET i == CHOOSE j \in 1..Len(s) :
                      /\ Chr(s, j) = sep
                      /\ \A k \in 1..(j - 1) : Chr(s, k) # sep
         IN  <<SubSeq(s, 1, i - 1)>> \o split(SubSeq(s, i + 1, Len(s)), sep)
    ELSE <<s>>

\* kw in text
Contains(text, kw) ==
    \E i \in 0..(Len(text) - Len(kw)) : SubSeq(text, i + 1, i + Len(kw)) = kw

\* sep.join(items)
RECURSIVE join(_, _)
join(sep, items) ==
    IF items = <<>> THEN ""
    ELSE IF Len(items) = 1 THEN items[1]
    ELSE items[1] \o sep \o join(sep, Tail(items))

\* a < b on str (code point order)
RECURSIVE StrLess(_, _)
StrLess(a, b) ==
    IF b = "" THEN FALSE
    ELSE IF a = "" THEN TRUE
    ELSE IF Chr(a, 1) = Chr(b, 1)
         THEN StrLess(SubSeq(a, 2, Len(a)), SubSeq(b, 2, Len(b)))
         ELSE Ord(Chr(a, 1)) < Ord(Chr(b, 1))

\* sorted(S) for a collection of distinct str
RECURSIVE sorted(_)
sorted(S) ==
    IF S = {} THEN <<>>
    ELSE LET m == CHOOSE x \in S : \A y \in S \ {x} : StrLess(x, y)
         IN  <<m>> \o sorted(S \ {m})

RECURSIVE Reverse(_)
Reverse(s) == IF s = <<>> THEN <<>> ELSE Append(Reverse(Tail(s)), Head(s))

Range(s) == {s[i] : i \in 1..Len(s)}

\* Series.unique(): first occurrences, in order of appearance
RECURSIVE unique(_)
unique(s) ==
    IF s = <<>> THEN <<>>
    ELSE LET r == unique(SubSeq(s, 1, Len(s) - 1))
         IN  IF s[Len(s)] \in Range(r) THEN r ELSE Append(r, s[Len(s)])

-----------------------------------------------------------------------------
(* Values *)

\* A spreadsheet cell of a text column: a str, or missing (NaN).
NaN == [na |-> TRUE, v |-> ""]
Str(s) == [na |-> FALSE, v |-> s]

Row(title, skill) == [title |-> title, skill |-> skill]

\* An .xlsx file: a workbook with the sheet "Skills Master JIE", its columns
\* and rows; or a workbook without that sheet; or no file.
Workbook(columns, rows) == [kind |-> "sheet", columns |-> columns, rows |-> rows]
Unreadable == [kind |-> "unreadable", columns |-> {}, rows |-> <<>>]
NoFile == [kind |-> "none", columns |-> {}, rows |-> <<>>]

\* An uploaded CV: its name, whether its bytes are a PDF that fitz can open,
\* and the text of its pages.
Pdf(name, pages) == [name |-> name, valid |-> TRUE, pages |-> pages]
NotPdf(name) == [name |-> name, valid |-> FALSE, pages |-> <<>>]

\* The selectbox value when there is no option.
NoJob == [na |-> TRUE, v |-> ""]

Max(a, b) == IF a > b THEN a ELSE b
Min(a, b) == IF a < b THEN a ELSE b

\* All sequences over S of length at most n.
RECURSIVE SeqsUpTo(_, _)
SeqsUpTo(S, n) ==
    IF n = 0 THEN {<<>>}
    ELSE LET shorter == SeqsUpTo(S, n - 1)
         IN  shorter \cup {Append(q, x) : q \in shorter, x \in S}

-----------------------------------------------------------------------------
(* Bounds and inputs of the model *)

MaxRows == 2        \* FnSpec: rows of the spreadsheet
MaxTokens == 2      \* FnSpec: comma-separated pieces of the free-text input
MaxBatch == 3       \* FnSpec: files of one upload
MaxKeywords == 9    \* FnSpec: size of the keyword list of a batch
MaxHistory == 2     \* Spec: records in chat_history

HashSeeds == {0, 1}

TitleColumn == "Unnamed: 1"
SkillColumn == "Unnamed: 3"

FnRows ==
    {Row(Str("Analyst"), k) : k \in {NaN, Str("Excel"), Str("excel"), Str("SQL")}}
        \cup {Row(Str("Clerk"), Str("Word")), Row(NaN, Str("Java"))}

FnTokens == {"", " Excel ", "sql"}

FnDocs ==
    {Pdf("a.pdf", <<"Excel ", "and Customer">>),
     Pdf("b.pdf", <<"painting">>),
     Pdf("c.pdf", <<"AutoCAD Revit", " mysql">>),
     Pdf("d.pdf", <<"data  analysis ", "Project">>),
     NotPdf("x.pdf")}

KeywordPool ==
    <<"excel", "customer", "python", "sql", "data analysis", "autocad",
      "revit", "project", "design", "word", "java", "painting">>

\* Spec: a workbook with two job titles, twelve skills for one of them.
SkillsSheet ==
    Workbook({"Unnamed: 0", TitleColumn, "Unnamed: 2", SkillColumn},
             <<Row(Str("Engineer"), Str("CAD")), Row(Str("Engineer"), Str("BIM")),
               Row(Str("Engineer"), Str("GIS")), Row(Str("Engineer"), Str("Revit")),
               Row(Str("Analyst"), Str("SQL")),  Row(Str("Analyst"), NaN),
               Row(Str("Analyst"), Str("Excel")), Row(Str("Analyst"), Str("excel")),
               Row(NaN, Str("Word")),
               Row(Str("Engineer"), Str("AC")),  Row(Str("Engineer"), Str("pv")),
               Row(Str("Engineer"), Str("qa")),  Row(Str("Engineer"), Str("qs")),
               Row(Str("Engineer"), Str("ifc")), Row(Str("Engineer"), Str("sap")),
               Row(Str("Engineer"), Str("cfd")), Row(Str("Engineer"), Str("fem"))>>)

\* Spec: a workbook whose sheet lacks the two columns.
OtherSheet == Workbook({"Job", "Skill"}, <<Row(Str("Analyst"), Str("SQL"))>>)

ExcelFiles == {SkillsSheet, OtherSheet}

KeywordInputs == {"", "Art, sql ,"}

CvA == Pdf("a.pdf", <<"Excel", " SQL">>)
CvB == Pdf("b.pdf", <<"art">>)
CvX == NotPdf("x.pdf")

\* Spec: the uploads tried, with and without a file that is no PDF.
Uploads == {<<>>, <<CvA>>, <<CvB, CvA>>, <<CvA, CvB>>, <<CvA, CvX>>}

Questions == {"", "why", "how"}

-----------------------------------------------------------------------------
(* Keyword Set Builder: lines 78-88 *)

\* pd.read_excel(file, sheet_name="Skills Master JIE") raises when the
\* workbook has no such sheet.
load_skills_excel(file) == [ok |-> file.kind = "sheet", df |-> file]

\* df_skills["Unnamed: 1"].dropna().unique()
job_titles(df) ==
    LET present == SelectSeq(df.rows, LAMBDA r : ~r.title.na)
    IN  unique([i \in 1..Len(present) |-> present[i].title.v])

\* df_skills[df_skills["Unnamed: 1"] == selected_job]["Unnamed: 3"]
\*     .dropna().str.lower().unique()
job_skills(df, job) ==
    LET mine    == SelectSeq(df.rows, LAMBDA r : ~r.title.na /\ r.title.v = job)
        present == SelectSeq(mine, LAMBDA r : ~r.skill.na)
    IN  unique([i \in 1..Len(present) |-> lower(present[i].skill.v)])

custom_keywords_nolower(input) ==
    LET parts == SelectSeq(split(input, ","), LAMBDA kw : strip(kw) # "")
    IN  [i \in 1..Len(parts) |-> strip(parts[i])]

\* [kw.strip().lower() for kw in keyword_input.split(",") if kw.strip()]
custom_keywords(input) ==
    LET parts == SelectSeq(split(input, ","), LAMBDA kw : strip(kw) # "")
    IN  [i \in 1..Len(parts) |-> lower(strip(parts[i]))]

\* Every str that can be an element of a keyword set built from the inputs above.
KeywordUniverse ==
    LET cells == {r.skill.v : r \in FnRows \cup Range(SkillsSheet.rows)
                                      \cup Range(OtherSheet.rows)}
        pieces == UNION {Range(split(i, ",")) : i \in KeywordInputs \cup FnTokens}
        raw == cells \cup {strip(x) : x \in pieces} \cup Range(KeywordPool)
    IN  raw \cup {lower(x) : x \in raw}

\* list(a_set): the iteration order of a set of str is fixed by the hashes of
\* its elements, which the process's hash seed fixes for the whole session:
\* one total order on str per seed.
HashOrder == sorted(KeywordUniverse)

seeded(order, seed) == IF seed = 0 THEN order ELSE Reverse(order)

list_of_set(S, seed) == seeded(SelectSeq(HashOrder, LAMBDA k : k \in S), seed)

\* list(set(job_skills).union(custom_keywords))
combined_keywords(skills, custom, seed) ==
    list_of_set(Range(skills) \cup Range(custom), seed)

-----------------------------------------------------------------------------
(* Text Extractor and Match Engine: lines 53-71 *)

\* fitz.open raises on bytes that are no PDF; otherwise the page texts are
\* concatenated and lowercased.
extract_text_from_pdf(file) ==
    IF file.valid THEN [ok |-> TRUE, text |-> lower(join("", file.pages))]
    ELSE [ok |-> FALSE, text |-> ""]

matched_prefix(kws, text) ==
    SelectSeq(kws, LAMBDA kw : Len(kw) <= Len(text) /\ SubSeq(text, 1, Len(kw)) = kw)

\* [kw for kw in combined_keywords if kw in text]
matched_list(kws, text) == SelectSeq(kws, LAMBDA kw : Contains(text, kw))

\* Lines 64-71 on the extracted text.
match_result(name, text, matched) ==
    [ok |-> TRUE,
     cv_name |-> name,
     match_count |-> Len(matched),
     matched_keywords |-> join(", ", matched),
     raw_text |-> text,
     matched_list |-> matched]

\* Line 63 raised: process_cv returns nothing.
raised(name) ==
    [ok |-> FALSE, cv_name |-> name, match_count |-> 0, matched_keywords |-> "",
     raw_text |-> "", matched_list |-> <<>>]

process_text(name, ex, kws) ==
    IF ex.ok THEN match_result(name, ex.text, matched_list(kws, ex.text))
    ELSE raised(name)

\* The exception of extract_text_from_pdf propagates: ok = FALSE.
process_cv(cv_file, kws) ==
    process_text(cv_file.name, extract_text_from_pdf(cv_file), kws)

-----------------------------------------------------------------------------
(* Ranking and Threshold Classifier: lines 91-113 *)

threshold_nomax(kws) == Len(kws) \div 4

\* max(1, len(combined_keywords) // 4)
threshold(kws) == Max(1, Len(kws) \div 4)

gathered(processed) ==
    [ok |-> \A i \in 1..Len(processed) : processed[i].ok, processed |-> processed]

\* asyncio.gather(*tasks): the results in task order, or the first exception.
gather(cvs, kws) == gathered([i \in 1..Len(cvs) |-> process_cv(cvs[i], kws)])

\* results: the rows of the DataFrame, each with its RangeIndex label.
results_of(processed) ==
    [i \in 1..Len(processed) |->
        [index |-> i - 1,
         cv_name |-> processed[i].cv_name,
         match_count |-> processed[i].match_count,
         matched_keywords |-> processed[i].matched_keywords]]

below(processed, limit) == SelectSeq(processed, LAMBDA r : r.match_count < limit)

unmatched_entries(low) ==
    [i \in 1..Len(low) |-> <<low[i].cv_name, low[i].raw_text, low[i].matched_list>>]

\* unmatched_cvs: (name, text, matched) of the results below the threshold.
unmatched_of(processed, kws) == unmatched_entries(below(processed, threshold(kws)))

descending(rows) ==
    {p \in [1..Len(rows) -> 1..Len(rows)] :
        /\ \A i, j \in 1..Len(rows) : i # j => p[i] # p[j]
        /\ \A i \in 1..(Len(rows) - 1) :
               rows[p[i]].match_count >= rows[p[i + 1]].match_count}

\* DataFrame.sort_values(by="Match Count", ascending=False) with the default
\* kind="quicksort", which is not a stable sort: rows of equal Match Count come
\* out in an order the sort does not fix.
sort_values(rows) == {[i \in 1..Len(rows) |-> rows[p[i]]] : p \in descending(rows)}

\* Lines 102-111 on what gather returned.
after_gather(g, kws) ==
    IF g.ok
    THEN [ok |-> TRUE, processed |-> g.processed,
          results |-> results_of(g.processed),
          tables |-> sort_values(results_of(g.processed)),
          unmatched_cvs |-> unmatched_of(g.processed, kws)]
    ELSE [ok |-> FALSE, processed |-> <<>>, results |-> <<>>, tables |-> {<<>>},
          unmatched_cvs |-> <<>>]

\* Lines 93-111 on a non-empty upload: the exception of the first file that
\* fails, or the rows, the tables the sort can display and unmatched_cvs.
process_uploads(cvs, kws) == after_gather(gather(cvs, kws), kws)

-----------------------------------------------------------------------------
(* The upload section: lines 74-113 *)

\* What lines 74-111 compute from the widget values: whether the widgets of
\* lines 80-90 are rendered, the selectbox value, combined_keywords, and the
\* outcome of processing the uploaded CVs.
upload_none ==
    [error |-> "none", rendered |-> FALSE, selected_job |-> NoJob,
     kws |-> <<>>, shown |-> FALSE, tables |-> {<<>>}, unmatched_cvs |-> <<>>]

\* st.selectbox: the chosen option, or the first one.
selectbox(job, options) ==
    IF ~job.na /\ job.v \in Range(options) THEN job
    ELSE IF options = <<>> THEN NoJob ELSE Str(options[1])

\* Lines 91-113: p is the outcome of processing a non-empty upload.
upload_outcome(job, kws, cvs, p) ==
    [error |-> IF cvs # <<>> /\ ~p.ok THEN "cv" ELSE "none",
     rendered |-> TRUE,
     selected_job |-> job,
     kws |-> kws,
     shown |-> cvs # <<>> /\ p.ok,
     tables |-> IF cvs # <<>> /\ p.ok THEN p.tables ELSE {<<>>},
     unmatched_cvs |-> IF cvs # <<>> /\ p.ok THEN p.unmatched_cvs ELSE <<>>]

\* Lines 90-113 with combined_keywords kws.
upload_keywords(job, kws, cvs) == upload_outcome(job, kws, cvs, process_uploads(cvs, kws))

\* Lines 82-113 with the selectbox value job.
upload_job(df, job, kwin, cvs, seed) ==
    upload_keywords(job,
                    combined_keywords(IF job.na THEN <<>> ELSE job_skills(df, job.v),
                                      custom_keywords(kwin), seed),
                    cvs)

upload_compute(ef, job, kwin, cvs, seed) ==
    IF ef.kind = "none" THEN upload_none
    ELSE IF ~load_skills_excel(ef).ok THEN [upload_none EXCEPT !.error = "excel"]
    ELSE IF ~({TitleColumn, SkillColumn} \subseteq ef.columns) THEN upload_none
    ELSE upload_job(ef, selectbox(job, sorted(Range(job_titles(ef)))), kwin, cvs, seed)

\* upload_compute on the widget values of Spec, evaluated once.
SessionJobs == {NoJob} \cup {Str(t) : t \in UNION {Range(job_titles(f)) : f \in ExcelFiles}}

\* f with every value computed: a table.
Tabulated(f) == f @@ <<>>

UploadInputs ==
    HashSeeds \X KeywordInputs \X SessionJobs \X Uploads \X (ExcelFiles \cup {NoFile})

UploadTable ==
    Tabulated([w \in UploadInputs |-> upload_compute(w[5], w[3], w[2], w[4], w[1])])

upload_result(ef, job, kwin, cvs, seed) == UploadTable[<<seed, kwin, job, cvs, ef>>]

\* session_state with keys k1 and k2 assigned.
assign2(ss, k1, v1, k2, v2) == (k1 :> v1) @@ (k2 :> v2) @@ ss

\* Lines 74-113 on session_state ss. The widgets inside a block that is not
\* executed are not rendered, and a run that ends normally drops their values;
\* a run that ends in an exception keeps every widget value. Lines 112-113
\* are reached only when every CV of a non-empty upload was processed.
upload_effect(ss, job, kwin, cvs, c, dropped) ==
    [error |-> c.error,
     shown |-> c.shown,
     tables |-> c.tables,
     selected_job |-> IF c.rendered THEN c.selected_job
                      ELSE IF dropped THEN NoJob ELSE job,
     keyword_input |-> IF dropped THEN "" ELSE kwin,
     uploaded_cvs |-> IF dropped THEN <<>> ELSE cvs,
     session_state |->
         IF c.shown
         THEN assign2(ss, "unmatched_cvs", c.unmatched_cvs, "combined_keywords", c.kws)
         ELSE ss]

upload_end(ss, job, kwin, cvs, c) ==
    upload_effect(ss, job, kwin, cvs, c, c.error = "none" /\ ~c.rendered)

upload_section(ss, ef, job, kwin, cvs, seed) ==
    upload_end(ss, job, kwin, cvs, upload_result(ef, job, kwin, cvs, seed))

-----------------------------------------------------------------------------
(* Role Suggestion Engine and History Log: lines 116-152 *)

Rule(triggers, role, why) == [triggers |-> triggers, role |-> role, why |-> why]

\* The six conditionals of lines 121-138, in order.
Rules == <<
    Rule({"excel", "spreadsheet"}, "Data Entry Clerk",
         "Mentions Excel/spreadsheet skills suitable for data entry roles."),
    Rule({"project", "timeline"}, "Project Coordinator",
         "Mentions project-related terms indicating coordination experience."),
    Rule({"customer", "client"}, "Customer Support Representative",
         "Mentions customer/client interactions suitable for support roles."),
    Rule({"python", "sql", "data analysis"}, "Junior Data Analyst",
         "Mentions programming or data analysis skills."),
    Rule({"marketing", "campaign"}, "Marketing Assistant",
         "Mentions marketing-related terms suitable for assistant roles."),
    Rule({"design", "autocad", "revit"}, "Design Technician",
         "Mentions design tools indicating suitability for technical design roles.") >>

\* Lines 139-141.
Fallback == Rule({}, "General Office Support",
                 "No strong keyword matches; general support role may be appropriate.")

Fires(rule, text) == \E t \in rule.triggers : Contains(text, t)

roles(rules) ==
    [suggestions |-> [i \in 1..Len(rules) |-> rules[i].role],
     reasoning   |-> [i \in 1..Len(rules) |-> rules[i].why]]

or_fallback(fired) == IF fired = <<>> THEN <<Fallback>> ELSE fired

first_or_fallback(fired) == IF fired = <<>> THEN <<Fallback>> ELSE <<fired[1]>>

suggest_elif(text) == roles(first_or_fallback(SelectSeq(Rules, LAMBDA r : Fires(r, text))))

\* suggestions and reasoning after lines 118-141.
suggest(text) == roles(or_fallback(SelectSeq(Rules, LAMBDA r : Fires(r, text))))

\* missing_skills[:10]
MissingLimit == 10

first(items, limit) == SubSeq(items, 1, Min(limit, Len(items)))

\* [kw for kw in combined_keywords if kw not in text]
absent(kws, text) == SelectSeq(kws, LAMBDA kw : ~Contains(text, kw))

missing_untruncated(kws, text) == absent(kws, text)

\* missing_skills[:10]
missing(kws, text) == first(absent(kws, text), MissingLimit)

\* The dict of lines 145-152 for one entry (name, text, matched) of unmatched_cvs.
record(entry, query, missing_skills, s) ==
    [cv_name |-> entry[1],
     question |-> query,
     matched |-> entry[3],
     missing |-> missing_skills,
     suggestions |-> s.suggestions,
     reasoning |-> s.reasoning]

record_compute(entry, kws, query) ==
    record(entry, query, missing(kws, entry[2]), suggest(entry[2]))

\* record_compute on the entries, keyword lists and questions of Spec,
\* evaluated once.
UploadOutcomes == {UploadTable[w] : w \in UploadInputs}

record_inputs(outcomes) ==
    Questions \X (UNION {Range(o.unmatched_cvs) : o \in outcomes})
              \X {o.kws : o \in outcomes}

RecordInputs == record_inputs(UploadOutcomes)

RecordTable ==
    Tabulated([w \in RecordInputs |-> record_compute(w[2], w[3], w[1])])

record_of(entry, kws, query) ==
    IF <<query, entry, kws>> \in RecordInputs
    THEN RecordTable[<<query, entry, kws>>]
    ELSE record_compute(entry, kws, query)

insert_back(history, rec) == Append(history, rec)

\* chat_history.insert(0, rec)
insert0(history, rec) == <<rec>> \o history

\* The loop of lines 117-152 over unmatched_cvs.
RECURSIVE answer(_, _, _, _)
answer(history, unmatched, kws, query) ==
    IF unmatched = <<>> THEN history
    ELSE answer(insert0(history, record_of(Head(unmatched), kws, query)),
                Tail(unmatched), kws, query)

\* Line 116.
assistant_guard(ss, query, submit) ==
    submit /\ query # "" /\ "unmatched_cvs" \in DOMAIN ss

assistant_logic_reset(ss, query, submit) ==
    IF assistant_guard(ss, query, submit)
    THEN [ss EXCEPT !.chat_history =
              answer(<<>>, ss.unmatched_cvs, ss.combined_keywords, query)]
    ELSE ss

\* Lines 116-152.
assistant_logic(ss, query, submit) ==
    IF assistant_guard(ss, query, submit)
    THEN [ss EXCEPT !.chat_history =
              answer(ss.chat_history, ss.unmatched_cvs, ss.combined_keywords, query)]
    ELSE ss

-----------------------------------------------------------------------------
(* The script run: lines 36-166 *)

init_session_state_demo ==
    [chat_history |-> <<>>, unmatched_cvs |-> <<<<"sample.pdf", "sample", <<>>>>>>,
     combined_keywords |-> <<>>]

\* Lines 36-38: the session state of a fresh session.
init_session_state == [chat_history |-> <<>>]

\* One run of the script with the given widget values. An exception in the
\* upload section ends the run: the assistant logic below it is not reached.
script_end(up, query, submit, reached) ==
    [up EXCEPT !.session_state =
                   IF reached THEN assistant_logic(up.session_state, query, submit)
                   ELSE up.session_state]
    @@ [accepted |-> reached /\ assistant_guard(up.session_state, query, submit)]

assistant_section(up, query, submit) == script_end(up, query, submit, up.error = "none")

script(ss, ef, job, kwin, cvs, query, submit, seed) ==
    assistant_section(upload_section(ss, ef, job, kwin, cvs, seed), query, submit)

Rerun(ef, job, kwin, cvs, query, submit) ==
    \E out \in {script(session_state, ef, job, kwin, cvs, query, submit, hashseed)} :
        /\ Len(out.session_state.chat_history) <= MaxHistory
        /\ session_state' = out.session_state
        /\ excel_file' = ef
        /\ selected_job' = out.selected_job
        /\ keyword_input' = out.keyword_input
        /\ uploaded_cvs' = out.uploaded_cvs
        /\ user_query' = query
        /\ processed_once' = (processed_once \/ out.shown)
        /\ \E t \in out.tables :
               run' = [error |-> out.error, shown |-> out.shown, table |-> t,
                       submit |-> submit, accepted |-> out.accepted]
        /\ UNCHANGED <<hashseed, call, ret>>

NoRun == [error |-> "none", shown |-> FALSE, table |-> <<>>, submit |-> FALSE,
          accepted |-> FALSE]

FreshSession ==
    /\ session_state = init_session_state
    /\ excel_file = NoFile
    /\ selected_job = NoJob
    /\ keyword_input = ""
    /\ uploaded_cvs = <<>>
    /\ user_query = ""
    /\ run = NoRun
    /\ processed_once = FALSE

-----------------------------------------------------------------------------
(* FnSpec: the pure parts applied to drawn inputs *)

NoCall == [fn |-> "none"]
NoRet == [done |-> FALSE]
Ret(value) == [done |-> TRUE, value |-> value]

KeywordsCalls ==
    {[fn |-> "keywords", rows |-> rows, job |-> "Analyst", input |-> join(",", tokens)] :
        rows \in SeqsUpTo(FnRows, MaxRows),
        tokens \in SeqsUpTo(FnTokens, MaxTokens) \ {<<>>}}

BatchCalls ==
    {[fn |-> "batch", cvs |-> cvs,
      kws |-> list_of_set(Range(SubSeq(KeywordPool, 1, n)), seed)] :
        cvs \in SeqsUpTo(FnDocs, MaxBatch) \ {<<>>},
        n \in 0..Min(MaxKeywords, Len(KeywordPool)),
        seed \in HashSeeds}

\* One text per choice of a trigger, or none, for each rule.
SuggestTexts ==
    {join(" ", SelectSeq(<<pre, w1, w2, w3, w4, w5, w6>>, LAMBDA w : w # "")) :
        pre \in {"", "enjoys painting exce l"},
        w1 \in Rules[1].triggers \cup {""}, w2 \in Rules[2].triggers \cup {""},
        w3 \in Rules[3].triggers \cup {""}, w4 \in Rules[4].triggers \cup {""},
        w5 \in Rules[5].triggers \cup {""}, w6 \in Rules[6].triggers \cup {""}}

SuggestCalls == {[fn |-> "suggest", text |-> t] : t \in SuggestTexts}

FnInit ==
    /\ FreshSession
    /\ hashseed \in HashSeeds
    /\ call \in KeywordsCalls \cup BatchCalls \cup SuggestCalls
    /\ ret = NoRet

\* Lines 82-87 on one spreadsheet and one free-text input.
BuildKeywords ==
    /\ call.fn = "keywords" /\ ~ret.done
    /\ ret' = Ret(combined_keywords(job_skills([rows |-> call.rows], call.job),
                                    custom_keywords(call.input), hashseed))
    /\ UNCHANGED <<sessionVars, hashseed, call>>

\* Lines 93-111 on one upload and one keyword list.
ProcessBatch ==
    /\ call.fn = "batch" /\ ~ret.done
    /\ \E p \in {process_uploads(call.cvs, call.kws)} :
           \E t \in p.tables :
               ret' = Ret([ok |-> p.ok, processed |-> p.processed, table |-> t,
                           unmatched_cvs |-> p.unmatched_cvs])
    /\ UNCHANGED <<sessionVars, hashseed, call>>

\* Lines 118-141 on one text.
SuggestRoles ==
    /\ call.fn = "suggest" /\ ~ret.done
    /\ ret' = Ret(suggest(call.text))
    /\ UNCHANGED <<sessionVars, hashseed, call>>

FnNext == BuildKeywords \/ ProcessBatch \/ SuggestRoles

FnSpec == FnInit /\ [][FnNext]_vars

-----------------------------------------------------------------------------
(* Spec: the session *)

Init ==
    /\ FreshSession
    /\ hashseed \in HashSeeds
    /\ call = NoCall
    /\ ret = NoRet

\* The widgets of lines 80-90 were rendered by the last run.
Rendered ==
    /\ excel_file.kind = "sheet"
    /\ {TitleColumn, SkillColumn} \subseteq excel_file.columns

\* Line 74: a file is chosen in, or removed from, the Excel uploader.
UploadExcel ==
    \E f \in ExcelFiles \cup {NoFile} :
        /\ f # excel_file
        /\ Rerun(f, selected_job, keyword_input, uploaded_cvs, user_query, FALSE)

\* Line 80: a job title is chosen in the selectbox.
SelectJob ==
    \E j \in Range(job_titles(excel_file)) :
        /\ Rendered
        /\ Str(j) # selected_job
        /\ Rerun(excel_file, Str(j), keyword_input, uploaded_cvs, user_query, FALSE)

\* Line 85: the additional keywords are edited.
EnterKeywords ==
    \E s \in KeywordInputs :
        /\ Rendered
        /\ s # keyword_input
        /\ Rerun(excel_file, selected_job, s, uploaded_cvs, user_query, FALSE)

\* Line 90: files are added to, or removed from, the CV uploader.
UploadCVs ==
    \E cvs \in Uploads :
        /\ Rendered
        /\ cvs # uploaded_cvs
        /\ Rerun(excel_file, selected_job, keyword_input, cvs, user_query, FALSE)

\* Line 44: the question is edited.
TypeQuestion ==
    \E q \in Questions :
        /\ q # user_query
        /\ Rerun(excel_file, selected_job, keyword_input, uploaded_cvs, q, FALSE)

\* Line 45: the button is clicked.
AskAssistant ==
    \E submit_query \in {TRUE} :
        Rerun(excel_file, selected_job, keyword_input, uploaded_cvs, user_query,
              submit_query)

Next ==
    \/ UploadExcel
    \/ SelectJob
    \/ EnterKeywords
    \/ UploadCVs
    \/ TypeQuestion
    \/ AskAssistant

Spec == Init /\ [][Next]_vars

-----------------------------------------------------------------------------
(* Properties *)

chat_history == session_state.chat_history

\* k occurs in t as a contiguous piece: at some position of t the characters
\* of k follow one another.
Occurs(k, t) ==
    \E a \in 1..(Len(t) + 1) :
        \A c \in 1..Len(k) : a + c - 1 <= Len(t) /\ Chr(t, a + c - 1) = Chr(k, c)

UpperCase == "ABCDEFGHIJKLMNOPQRSTUVWXYZ"

LowerCase == "abcdefghijklmnopqrstuvwxyz"

IsUpper(c) == \E i \in 1..Len(UpperCase) : Chr(UpperCase, i) = c

\* c is the upper case letter of which d is the lower case letter.
CasePair(c, d) ==
    \E i \in 1..Len(UpperCase) : Chr(UpperCase, i) = c /\ Chr(LowerCase, i) = d

\* The k-th smallest element of a set of numbers.
Nth(S, k) == CHOOSE i \in S : Cardinality({j \in S : j < i}) = k - 1

\* The elements of seq at the positions in S, in order.
Pick(seq, S) == [k \in 1..Cardinality(S) |-> seq[Nth(S, k)]]

\* C1: the History Log is append-only: every step keeps the records already
\* in chat_history, unchanged and in the same order, as the tail of the new
\* log; the length never decreases and new records are added at the front only.
C1_AppendOnly ==
    [][LET old == session_state.chat_history
           new == session_state'.chat_history
       IN  /\ Len(new) >= Len(old)
           /\ SubSeq(new, Len(new) - Len(old) + 1, Len(new)) = old]_vars

\* Two submissions: the record of the first one lies behind the record of the
\* second one.
C1_Witness ==
    /\ Len(chat_history) = 2
    /\ chat_history[1].question # chat_history[2].question

\* C2: an accepted question submission against unmatched_cvs = [d1, ..., dN]
\* adds exactly N records; the first N records of the log are then for
\* dN, ..., d1, each with the submitted question, and the previous log follows
\* them unchanged.
C2_BatchReversed ==
    [][run'.accepted =>
        LET U == session_state'.unmatched_cvs
            N == Len(U)
            old == session_state.chat_history
            new == session_state'.chat_history
        IN  /\ Len(new) = Len(old) + N
            /\ \A i \in 1..N :
                   /\ new[i].cv_name = U[N + 1 - i][1]
                   /\ new[i].matched = U[N + 1 - i][3]
                   /\ new[i].question = user_query'
            /\ SubSeq(new, N + 1, Len(new)) = old]_vars

\* One submission against two different unmatched documents.
C2_Witness ==
    /\ run.accepted
    /\ Len(session_state.unmatched_cvs) = 2
    /\ Len(chat_history) = 2
    /\ chat_history[1].cv_name = session_state.unmatched_cvs[2][1]
    /\ chat_history[2].cv_name = session_state.unmatched_cvs[1][1]
    /\ chat_history[1].cv_name # chat_history[2].cv_name

\* C3: while no document processing has populated unmatched_cvs and
\* combined_keywords, a step (a question submission included) leaves the
\* History Log as it was; the log changes only when both keys are populated.
C3_NoOpWithoutProcessing ==
    [][/\ ~processed_once' => session_state'.chat_history = session_state.chat_history
       /\ session_state'.chat_history # session_state.chat_history =>
              {"unmatched_cvs", "combined_keywords"} \subseteq DOMAIN session_state']_vars

\* A question was submitted before any document was processed.
C3_Witness ==
    /\ run.submit
    /\ user_query # ""
    /\ ~processed_once
    /\ DOMAIN session_state = {"chat_history"}
    /\ chat_history = <<>>

\* C4: when one file of an upload fails text extraction, the other files are
\* still processed: the ranked table is displayed with a row for each of them.
C4_BatchContinues ==
    (/\ Rendered
     /\ \E i \in 1..Len(uploaded_cvs) : ~uploaded_cvs[i].valid)
    => /\ run.shown
       /\ \A i \in 1..Len(uploaded_cvs) :
              uploaded_cvs[i].valid =>
                  \E k \in 1..Len(run.table) :
                      run.table[k].cv_name = uploaded_cvs[i].name

BatchDone == call.fn = "batch" /\ ret.done /\ ret.value.ok

\* C5: a processed document is in unmatched_cvs iff its match count is below
\* max(1, |K| // 4), for every size of K including 0; with K empty every
\* document has match count 0 and is unmatched; unmatched_cvs keeps the
\* processing order.
C5_Unmatched ==
    BatchDone =>
        LET K == call.kws
            P == ret.value.processed
            quarter == Len(K) \div 4
            limit == IF quarter >= 1 THEN quarter ELSE 1
            low == {i \in 1..Len(P) : P[i].match_count < limit}
            entries == [i \in 1..Len(P) |->
                           <<P[i].cv_name, P[i].raw_text, P[i].matched_list>>]
        IN  /\ Len(P) = Len(call.cvs)
            /\ ret.value.unmatched_cvs = Pick(entries, low)
            /\ K = <<>> => /\ \A i \in 1..Len(P) : P[i].match_count = 0
                           /\ Len(ret.value.unmatched_cvs) = Len(P)

\* Threshold 2: a document with one match is unmatched, one with two is not.
C5_Witness ==
    /\ BatchDone
    /\ Len(call.kws) \div 4 = 2
    /\ \E i, j \in 1..Len(call.cvs) :
           /\ ret.value.processed[i].match_count = 1
           /\ ret.value.processed[j].match_count = 2
           /\ \E k \in 1..Len(ret.value.unmatched_cvs) :
                  ret.value.unmatched_cvs[k][1] = ret.value.processed[i].cv_name
           /\ \A k \in 1..Len(ret.value.unmatched_cvs) :
                  ret.value.unmatched_cvs[k][1] # ret.value.processed[j].cv_name

\* C6: for every document and keyword list K, the matched keywords are exactly
\* the keywords of K that occur in the document's lowercase text, in K's order
\* and without repetition, and the match count is their number; the result of
\* a document is fixed by its file and K, whatever else is in the batch.
C6_Matching ==
    BatchDone =>
        LET K == call.kws
            P == ret.value.processed
        IN  \A i \in 1..Len(P) :
                LET text == P[i].raw_text
                    found == {n \in 1..Len(K) : Occurs(K[n], text)}
                IN  /\ \A c \in 1..Len(text) : ~IsUpper(Chr(text, c))
                    /\ P[i].cv_name = call.cvs[i].name
                    /\ P[i].matched_list = Pick(K, found)
                    /\ P[i].match_count = Cardinality({K[n] : n \in found})
                    /\ \A j \in 1..Len(P) : call.cvs[i] = call.cvs[j] =>
                           /\ P[i].matched_list = P[j].matched_list
                           /\ P[i].match_count = P[j].match_count

\* A document with several, but not all, keywords matched, one of them inside
\* a longer word.
C6_Witness ==
    /\ BatchDone
    /\ \E i \in 1..Len(call.cvs) :
           /\ ret.value.processed[i].cv_name = "c.pdf"
           /\ ret.value.processed[i].match_count = 3
           /\ "sql" \in Range(ret.value.processed[i].matched_list)
           /\ Len(call.kws) > 3

\* C7: the ranked table has exactly one row per processed document, in
\* descending match count, and rows of equal match count keep their upload
\* order.
C7_StableRanking ==
    BatchDone =>
        LET T == ret.value.table
        IN  /\ Len(T) = Len(call.cvs)
            /\ {T[k].index : k \in 1..Len(T)} = 0..(Len(T) - 1)
            /\ \A k \in 1..Len(T) : T[k].cv_name = call.cvs[T[k].index + 1].name
            /\ \A a, b \in 1..Len(T) :
                   a < b => /\ T[a].match_count >= T[b].match_count
                            /\ T[a].match_count = T[b].match_count =>
                                   T[a].index < T[b].index

\* C8: the suggested roles are the roles of the rules whose trigger holds on
\* the text, in rule order, each with its reasoning at the same position; the
\* fallback role alone is suggested iff no rule fires.
C8_Roles ==
    (call.fn = "suggest" /\ ret.done) =>
        LET fired == {i \in 1..Len(Rules) :
                         \E t \in Rules[i].triggers : Occurs(t, call.text)}
            s == ret.value.suggestions
            r == ret.value.reasoning
        IN  /\ Len(s) = Len(r)
            /\ Len(s) >= 1
            /\ fired # {} => /\ s = Pick([i \in 1..Len(Rules) |-> Rules[i].role], fired)
                             /\ r = Pick([i \in 1..Len(Rules) |-> Rules[i].why], fired)
            /\ fired = {} <=> s = <<"General Office Support">>
            /\ fired = {} =>
                   r = <<"No strong keyword matches; general support role may be appropriate.">>
            /\ "General Office Support" \in Range(s) => Len(s) = 1

\* A text with "excel" and "customer": two rules fire.
C8_Witness ==
    /\ call.fn = "suggest" /\ ret.done
    /\ call.text = "excel customer"
    /\ ret.value.suggestions = <<"Data Entry Clerk", "Customer Support Representative">>
    /\ Len(ret.value.reasoning) = 2

\* C9: in the records of an accepted submission, missing is the first
\* min(10, m) of the m keywords of combined_keywords that do not occur in the
\* document's text, in the order of combined_keywords; it has at most 10
\* entries, 10 when at least 10 keywords are absent; and no record of the log
\* has a keyword both in missing and in matched.
C9_Missing ==
    /\ \A n \in 1..Len(chat_history) :
           /\ Len(chat_history[n].missing) <= 10
           /\ Range(chat_history[n].missing) \cap Range(chat_history[n].matched) = {}
    /\ run.accepted =>
           LET U == session_state.unmatched_cvs
               K == session_state.combined_keywords
               N == Len(U)
           IN  \A i \in 1..N :
                   LET lacking == {n \in 1..Len(K) : ~Occurs(K[n], U[N + 1 - i][2])}
                       m == Cardinality(lacking)
                       kept == {n \in lacking : Cardinality({j \in lacking : j < n}) < 10}
                   IN  /\ chat_history[i].missing = Pick(K, kept)
                       /\ Len(chat_history[i].missing) = IF m >= 10 THEN 10 ELSE m

\* A record with a matched keyword and more than 10 lacking keywords.
C9_Witness ==
    /\ run.accepted
    /\ Len(chat_history) >= 1
    /\ chat_history[1].matched # <<>>
    /\ Len(chat_history[1].missing) = 10
    /\ Len(session_state.combined_keywords) - Len(chat_history[1].matched) > 10

SameIgnoringCase(a, b) ==
    /\ Len(a) = Len(b)
    /\ \A c \in 1..Len(a) :
           \/ Chr(a, c) = Chr(b, c)
           \/ CasePair(Chr(a, c), Chr(b, c))
           \/ CasePair(Chr(b, c), Chr(a, c))

\* C10: the combined keyword list contains no empty string and no two
\* elements that are equal ignoring case, for every content of the skill
\* column and every free-text input.
C10_KeywordSet ==
    (call.fn = "keywords" /\ ret.done) =>
        LET K == ret.value
        IN  /\ \A i \in 1..Len(K) : K[i] # ""
            /\ \A i, j \in 1..Len(K) : i # j => ~SameIgnoringCase(K[i], K[j])

\* "Excel" and "excel" in the sheet, " Excel " and an empty piece typed in.
C10_Witness ==
    /\ call.fn = "keywords" /\ ret.done
    /\ call.rows = <<Row(Str("Analyst"), Str("Excel")), Row(Str("Analyst"), Str("excel"))>>
    /\ call.input = " Excel ,"
    /\ ret.value = <<"excel">>

====
